---- MODULE Spec2Model ----
(***************************************************************************)
(* Model of planner/app.py: the trace bus (SESSION_QUEUES, trace,          *)
(* trace_stream), the Bedrock gateway's retry, the tool-call capture and   *)
(* the planning endpoint with its fallback chain, _context_blob, the        *)
(* preview chosen by code_generate, and chat_send with its histories.      *)
(***************************************************************************)
EXTENDS Integers, Sequences, FiniteSets, TLC

\* ------------------------------------------------------------------ bounds
\* parts given to one _ToolCapture
MaxParts == 3
\* events read from one planning stream
MaxStream == 1
\* content parts of one non-streamed planning response
MaxRespParts == 1
\* number of trace() calls in a run of the bus
MaxEvents == 2
\* number of /trace/stream subscriptions in a run of the bus
MaxSubs == 2
\* keepalives one subscription is followed through
MaxKeepalives == 1
\* files of the mapping given to _context_blob
MaxFiles == 2
\* characters of one file's contents
MaxSrc == 2
\* the largest char_budget given to _context_blob
MaxBudget == 40
\* files in one emit_files tool call
MaxGenFiles == 2
\* trace() calls of one handler running in a threadpool thread
MaxPushes == 2
\* chat_send requests in a run
MaxChats == 2
\* code_generate requests in a run
MaxGens == 2

\* asyncio.wait_for(q.get(), timeout=5.0)
KeepaliveTimeout == 5
\* asyncio.wait_for(_run_stream(), timeout=20)
StreamTimeout == 20

None == "None"
\* SESSION_QUEUES.get(session_id) is None: the session has no queue
NoQueue == 0
Sessions == {"s1", "s2"}
\* str(uuid.uuid4()): the id of a request that brings none
GeneratedId == "uuid4"
\* req.session_id or "(no-session)"
NoSession == "(no-session)"
Subs == 1..MaxSubs
\* the threadpool threads that run the def (not async def) handlers
Threads == 1..2
\* kinds pushed by the request handlers, and by POST /trace/push
HandlerKinds == {"token"}
PushKinds == {"note"}

VARIABLES
    SESSION_QUEUES,   \* session id -> queue object (an index of qbuf) or NoQueue
    qbuf,             \* the asyncio.Queue objects ever created: their contents
    sub,              \* the /trace/stream subscriptions
    pushed,           \* history: every trace() call, in order
    gw,               \* one call of the Bedrock gateway and its transport calls
    capture,          \* _ToolCapture.actions
    absorbed,         \* history: the parts given to _ToolCapture.absorb
    pc,               \* where plan_endpoint is
    req,              \* the PlanRequest
    assistant_chunks, \* plan_endpoint's assistant_chunks
    actions,          \* plan_endpoint's actions
    response,         \* what the caller of plan_endpoint gets
    calls,            \* history: the model calls plan_endpoint has made
    json_result,      \* history: what _json_only_plan returned
    fail_stage,       \* history: the stage whose exception reached the handler
    stream_seen,      \* events read from the stream
    stream_clock,     \* time spent in wait_for(_run_stream(), timeout=20)
    attempt,          \* history: how the streaming attempt ended, when, and
                      \* the texts it had appended to assistant_chunks
    blob,             \* one call of _context_blob: its arguments and locals
    PREVIEW_HTML,     \* the module's _PREVIEW_HTML
    gen,              \* one code_generate request
    thr,              \* request handlers running in the threadpool
    SESSIONS,         \* the module's _SESSIONS: session id -> chat history
    chat              \* the chat_send requests of the threadpool threads

busVars == <<SESSION_QUEUES, qbuf, sub, pushed>>
gwVars == <<gw>>
capVars == <<capture, absorbed>>
timeVars == <<stream_clock, attempt>>
planVars == <<pc, req, assistant_chunks, actions, response, calls,
              json_result, fail_stage, stream_seen, timeVars>>
chatVars == <<SESSIONS, chat>>
sideVars == <<blob, PREVIEW_HTML, gen, thr, chatVars>>
notBusVars == <<gwVars, capVars, planVars, sideVars>>
vars == <<SESSION_QUEUES, qbuf, sub, pushed, gw, capture, absorbed, pc, req,
          assistant_chunks, actions, response, calls, json_result, fail_stage,
          stream_seen, stream_clock, attempt, blob, PREVIEW_HTML, gen, thr,
          SESSIONS, chat>>

\* ------------------------------------------------------------ trace bus
\* _get_queue: the registered queue of the session, created when absent
get_queue(reg, bufs, sid) ==
    IF reg[sid] # NoQueue
    THEN [reg |-> reg, bufs |-> bufs, q |-> reg[sid]]
    ELSE [reg |-> [reg EXCEPT ![sid] = Len(bufs) + 1],
          bufs |-> Append(bufs, <<>>),
          q |-> Len(bufs) + 1]

\* trace() putting the event at the head of the queue instead of its tail
trace_at_head(reg, bufs, sid, ev) ==
    LET g == get_queue(reg, bufs, sid)
    IN  [reg |-> g.reg, bufs |-> [g.bufs EXCEPT ![g.q] = <<ev>> \o @]]

\* trace: q = _get_queue(session_id); q.put_nowait((kind, payload))
trace(reg, bufs, sid, ev) ==
    LET g == get_queue(reg, bufs, sid)
    IN  [reg |-> g.reg, bufs |-> [g.bufs EXCEPT ![g.q] = Append(@, ev)]]

Connected(s) == sub[s].pc \in {"open", "waiting"}
ConnectedTo(sid) == {s \in Subs : Connected(s) /\ sub[s].sid = sid}
TornDown(sid) == \E s \in Subs : sub[s].pc = "closed" /\ sub[s].sid = sid

\* the event of the next trace() call; id, live and after are history only
NewEvent(log, sid, kind, msg, n) ==
    [id |-> Len(log) + 1, kind |-> kind, msg |-> msg, n |-> n, sid |-> sid,
     live |-> ConnectedTo(sid), after |-> TornDown(sid)]

\* the effect of one trace(session_id, kind, payload) call on the bus
Push(sid, kind) ==
    /\ Len(pushed) < MaxEvents
    /\ LET ev == NewEvent(pushed, sid, kind, "", 0)
           t == trace(SESSION_QUEUES, qbuf, sid, ev)
       IN  /\ SESSION_QUEUES' = t.reg
           /\ qbuf' = t.bufs
           /\ pushed' = Append(pushed, ev)
    /\ UNCHANGED sub
    /\ UNCHANGED notBusVars

\* a request handler (plan, chat, codegen) calls trace()
handler_trace == \E sid \in Sessions, kind \in HandlerKinds : Push(sid, kind)

\* POST /trace/push: _get_queue(session_id); trace(session_id, kind, payload)
trace_push == \E sid \in Sessions, kind \in PushKinds : Push(sid, kind)

\* GET /trace/stream: q = _get_queue(session_id); the generator is not started
trace_stream(s, sid) ==
    /\ sub[s].pc = "new"
    /\ \A r \in Subs : r < s => sub[r].pc # "new"
    /\ LET g == get_queue(SESSION_QUEUES, qbuf, sid)
       IN  /\ SESSION_QUEUES' = g.reg
           /\ qbuf' = g.bufs
           /\ sub' = [r \in Subs |->
                  IF r = s
                  THEN [sub[s] EXCEPT !.pc = "open", !.sid = sid, !.q = g.q,
                                      !.since = Len(pushed),
                                      !.shared = ConnectedTo(sid) # {}]
                  ELSE IF Connected(r) /\ sub[r].sid = sid
                       THEN [sub[r] EXCEPT !.shared = TRUE]
                       ELSE sub[r]]
    /\ UNCHANGED pushed
    /\ UNCHANGED notBusVars

Hello == [t |-> "hello"]
Keepalive == [t |-> "keepalive"]
EventOut(ev) == [t |-> "event", ev |-> ev]

\* gen(): the first yield
gen_hello(s) ==
    /\ sub[s].pc = "open"
    /\ sub' = [sub EXCEPT ![s].pc = "waiting", ![s].out = Append(@, Hello),
                          ![s].wait = 0]
    /\ UNCHANGED <<SESSION_QUEUES, qbuf, pushed>>
    /\ UNCHANGED notBusVars

\* q.get() returns within the timeout: the event is yielded
gen_deliver(s) ==
    /\ sub[s].pc = "waiting"
    /\ qbuf[sub[s].q] # <<>>
    /\ sub' = [sub EXCEPT ![s].out = Append(@, EventOut(Head(qbuf[sub[s].q]))),
                          ![s].wait = 0]
    /\ qbuf' = [qbuf EXCEPT ![sub[s].q] = Tail(@)]
    /\ UNCHANGED <<SESSION_QUEUES, pushed>>
    /\ UNCHANGED notBusVars

KeepalivesOf(s) == Len(SelectSeq(sub[s].out, LAMBDA o : o.t = "keepalive"))

\* a subscription blocked in wait_for(q.get(), 5.0) on an empty queue
Waiting(s) == sub[s].pc = "waiting" /\ qbuf[sub[s].q] = <<>>

\* one time unit passes: every blocked subscription has waited one unit more;
\* a subscription whose timeout is due times out before time moves on
Tick ==
    /\ \E s \in Subs : Waiting(s) /\ KeepalivesOf(s) < MaxKeepalives
    /\ \A s \in Subs : Waiting(s) => sub[s].wait < KeepaliveTimeout
    /\ sub' = [s \in Subs |->
               IF Waiting(s) /\ KeepalivesOf(s) < MaxKeepalives
               THEN [sub[s] EXCEPT !.wait = @ + 1] ELSE sub[s]]
    /\ UNCHANGED <<SESSION_QUEUES, qbuf, pushed>>
    /\ UNCHANGED notBusVars

\* a timeout that ends the stream after its keepalive
gen_timeout_ends(s) ==
    /\ sub[s].pc = "waiting"
    /\ qbuf[sub[s].q] = <<>>
    /\ sub[s].wait = KeepaliveTimeout
    /\ sub' = [sub EXCEPT ![s].out = Append(@, [t |-> "keepalive"]),
                          ![s].wait = 0, ![s].pc = "ended"]
    /\ UNCHANGED <<SESSION_QUEUES, qbuf, pushed>>
    /\ UNCHANGED notBusVars

\* asyncio.TimeoutError: yield ": keepalive", then wait again
gen_timeout(s) ==
    /\ sub[s].pc = "waiting"
    /\ qbuf[sub[s].q] = <<>>
    /\ sub[s].wait = KeepaliveTimeout
    /\ sub' = [sub EXCEPT ![s].out = Append(@, Keepalive), ![s].wait = 0]
    /\ UNCHANGED <<SESSION_QUEUES, qbuf, pushed>>
    /\ UNCHANGED notBusVars

NewSub == [pc |-> "new", sid |-> None, q |-> 0, out |-> <<>>, wait |-> 0,
           since |-> 0, shared |-> FALSE]

\* the consumer disconnects: finally: SESSION_QUEUES.pop(session_id, None).
\* A queue that neither the registry nor a generator refers to is freed, and
\* what the closed generator had sent is no longer followed.
gen_close(s) ==
    /\ sub[s].pc = "waiting"
    /\ SESSION_QUEUES' = [SESSION_QUEUES EXCEPT ![sub[s].sid] = NoQueue]
    /\ sub' = [sub EXCEPT ![s] = [NewSub EXCEPT !.pc = "closed",
                                                !.sid = sub[s].sid]]
    /\ qbuf' = IF \E r \in Subs \ {s} : Connected(r) /\ sub[r].q = sub[s].q
               THEN qbuf
               ELSE [qbuf EXCEPT ![sub[s].q] = <<>>]
    /\ UNCHANGED pushed
    /\ UNCHANGED notBusVars

\* the module's globals after import: no queue, no call in progress
BusIdle ==
    /\ SESSION_QUEUES = [sid \in Sessions \cup {GeneratedId, NoSession} |-> NoQueue]
    /\ qbuf = <<>>
    /\ sub = [s \in Subs |-> NewSub]
    /\ pushed = <<>>

GwIdle == gw = [pc |-> "idle", req |-> {}, sent |-> <<>>, errors |-> <<>>]

NoResponse == [status |-> "none"]
\* the try statement around run_until_complete has not been entered
NoAttempt == [outcome |-> "none", overran |-> FALSE, chunks |-> 0]
NoRequest == [input |-> <<>>, context |-> "None", session_id |-> None]
PlanIdle ==
    /\ pc = "idle"
    /\ req = NoRequest
    /\ assistant_chunks = <<>>
    /\ actions = <<>>
    /\ response = NoResponse
    /\ calls = <<>>
    /\ json_result = [run |-> FALSE, acts |-> <<>>, error |-> "",
                      reply |-> [raises |-> FALSE, text |-> <<>>]]
    /\ fail_stage = None
    /\ stream_seen = 0
    /\ stream_clock = 0
    /\ attempt = NoAttempt

\* _ToolCapture.__init__: self.actions = []
CapIdle == capture = <<>> /\ absorbed = <<>>

\* _context_blob is not running
NoBlob ==
    [pc |-> "idle", context |-> "None", files |-> <<>>, char_budget |-> 0,
     at |-> 0, chunks |-> <<>>, used |-> 0, result |-> <<>>]
\* no code_generate request
NoGen ==
    [pc |-> "idle", n |-> 0, session_id |-> None, files |-> <<>>, status |-> "none"]
\* _PREVIEW_HTML: str = ""
GenIdle == PREVIEW_HTML = <<>> /\ gen = NoGen
\* no threadpool thread runs a handler
RaceIdle ==
    thr = [t \in Threads |-> [pc |-> "idle", sid |-> None, q |-> NoQueue, left |-> 0]]
\* no chat_send request
NoChat ==
    [pc |-> "idle", n |-> 0, req |-> [session_id |-> None, user_input |-> <<>>],
     session_id |-> None, messages |-> <<>>, assistant_text |-> <<>>,
     response |-> NoResponse]
\* _SESSIONS: Dict[str, List[Dict[str, Any]]] = {}
ChatIdle == SESSIONS = <<>> /\ chat = [t \in Threads |-> NoChat]
SideIdle == blob = NoBlob /\ GenIdle /\ RaceIdle /\ ChatIdle

InitBus == BusIdle /\ GwIdle /\ CapIdle /\ PlanIdle /\ SideIdle

\* The bus without time: a timeout of gen() yields a keepalive and changes
\* neither a queue nor the registry, so what the subscriptions receive from
\* the queues is followed without it.
NextBus ==
    \/ handler_trace
    \/ trace_push
    \/ \E s \in Subs, sid \in Sessions : trace_stream(s, sid)
    \/ \E s \in Subs : gen_hello(s)
    \/ \E s \in Subs : gen_deliver(s)
    \/ \E s \in Subs : gen_close(s)

SpecBus == InitBus /\ [][NextBus]_vars

\* One subscription followed through time, with the producers pushing.
TimedSubs == {1}

NextTimed ==
    \/ handler_trace
    \/ trace_push
    \/ \E s \in TimedSubs, sid \in Sessions : trace_stream(s, sid)
    \/ \E s \in TimedSubs : gen_hello(s)
    \/ \E s \in TimedSubs : gen_deliver(s)
    \/ Tick
    \/ \E s \in TimedSubs : gen_timeout(s)
    \/ \E s \in TimedSubs : gen_close(s)

SpecTimed == InitBus /\ [][NextTimed]_vars

\* -------------------------------------------------------- model gateway
\* what a request can hold besides modelId and messages
ReqFields == {"system", "tools", "toolConfig", "inferenceConfig"}

\* BedrockClient.converse: the request holds the arguments that are not empty
converse_req(args) == args \cap ReqFields
\* BedrockClient.converse_stream: it has no tool_config parameter
converse_stream_req(args) == args \cap (ReqFields \ {"toolConfig"})

Ok == [t |-> "ok", unknown |-> {}]
\* botocore's ParamValidationError; unknown: the fields its message names in
\* 'Unknown parameter in input: "<field>"' (none: another validation failure)
ParamValidationError(unknown) == [t |-> "ParamValidationError", unknown |-> unknown]
ClientError == [t |-> "ClientError", unknown |-> {}]
\* what the transport can answer to a request
Outcomes(request) ==
    {Ok, ClientError} \cup {ParamValidationError(u) : u \in SUBSET request}

\* 'Unknown parameter in input: "tools"' in msg (or with single quotes)
rejects_tools(err) == err.t = "ParamValidationError" /\ "tools" \in err.unknown

\* req2 = dict(req); req2.pop("tools", None); req2.pop("toolConfig", None)
without_tools(request) == request \ {"tools", "toolConfig"}

\* brx.converse(...) or brx.converse_stream(...) is called
gw_call(api, args) ==
    /\ gw.pc = "idle"
    /\ gw' = [gw EXCEPT !.pc = "first",
                        !.req = IF api = "converse" THEN converse_req(args)
                                ELSE converse_stream_req(args)]
    /\ UNCHANGED <<busVars, capVars, planVars, sideVars>>

\* _retry_without_tools_if_needed: fn(**req) returns or raises
gw_first_reply(o) ==
    /\ gw.pc = "first"
    /\ o \in Outcomes(gw.req)
    /\ gw' = [gw EXCEPT
                 !.sent = Append(@, gw.req),
                 !.errors = IF o = Ok THEN @ ELSE Append(@, o),
                 !.pc = IF o = Ok THEN "returned"
                        ELSE IF rejects_tools(o) THEN "second" ELSE "raised"]
    /\ UNCHANGED <<busVars, capVars, planVars, sideVars>>

\* return fn(**req2): the resubmission returns or raises
gw_second_reply(o) ==
    /\ gw.pc = "second"
    /\ o \in Outcomes(without_tools(gw.req))
    /\ gw' = [gw EXCEPT
                 !.sent = Append(@, without_tools(gw.req)),
                 !.errors = IF o = Ok THEN @ ELSE Append(@, o),
                 !.pc = IF o = Ok THEN "returned" ELSE "raised"]
    /\ UNCHANGED <<busVars, capVars, planVars, sideVars>>

InitGateway == BusIdle /\ GwIdle /\ CapIdle /\ PlanIdle /\ SideIdle

NextGateway ==
    \/ \E api \in {"converse", "converse_stream"}, args \in SUBSET ReqFields :
          gw_call(api, args)
    \/ \E o \in Outcomes(ReqFields) : gw_first_reply(o)
    \/ \E o \in Outcomes(ReqFields) : gw_second_reply(o)

SpecGateway == InitGateway /\ [][NextGateway]_vars

\* ----------------------------------------------------- tool-call capture
\* JSON values, tagged with their Python type
Null == [ty |-> "null"]
Str(x) == [ty |-> "str", v |-> x]
List(x) == [ty |-> "list", v |-> x]
Dict(x) == [ty |-> "dict", v |-> x]
EmptyDict == [ty |-> "dict", v |-> <<>>]

\* d.get(k)
Get(d, k) == IF k \in DOMAIN d.v THEN d.v[k] ELSE Null
\* isinstance(x, dict), isinstance(x, list)
IsDict(x) == x.ty = "dict"
IsList(x) == x.ty = "list"
\* bool(x)
Truthy(x) ==
    CASE x.ty = "null" -> FALSE
      [] x.ty = "str"  -> x.v # ""
      [] x.ty = "list" -> x.v # <<>>
      [] x.ty = "dict" -> DOMAIN x.v # {}

\* the actions the model can name: the last one has no "type"
Act(type, path) == [type |-> type, path |-> path]
UntypedAct == [path |-> "notes.md"]
ActionLists ==
    {<<>>,
     <<Act("update_file", "app/page.tsx")>>,
     <<Act("create_file", "a.tsx"), Act("run_command", "")>>,
     <<UntypedAct>>}

ToolUse(input) == Dict([toolUse |-> Dict([name |-> Str("emit_plan"), input |-> input])])
\* the content parts of a response
TextPart == Dict([text |-> Str("ok")])
EmptyPart == EmptyDict
EmptyToolUse == Dict([toolUse |-> EmptyDict])
NoInputToolUse == Dict([toolUse |-> Dict([name |-> Str("emit_plan")])])
StrInputToolUse == ToolUse(Str("{\"actions\": []}"))
NoActionsToolUse == ToolUse(Dict([summary |-> Str("s")]))
StrActionsToolUse == ToolUse(Dict([actions |-> Str("none")]))
NullActionsToolUse == ToolUse(Dict([actions |-> Null]))
ActionsToolUse(acts) == ToolUse(Dict([actions |-> List(acts)]))
Parts ==
    {TextPart, EmptyPart, EmptyToolUse, NoInputToolUse, StrInputToolUse,
     NoActionsToolUse, StrActionsToolUse, NullActionsToolUse}
        \cup {ActionsToolUse(acts) : acts \in ActionLists}

\* absorb() adding the new actions to the captured ones
absorb_merging(captured, part) ==
    LET tu == Get(part, "toolUse")
    IN  IF Truthy(tu) /\ IsDict(Get(tu, "input"))
             /\ IsList(Get(Get(tu, "input"), "actions"))
        THEN captured \o Get(Get(tu, "input"), "actions").v
        ELSE captured

\* _ToolCapture.absorb: the value of self.actions after absorb(part)
absorb(captured, part) ==
    LET tu == Get(part, "toolUse")
    IN  IF Truthy(tu) /\ IsDict(Get(tu, "input"))
        THEN LET acts == Get(Get(tu, "input"), "actions")
             IN  IF IsList(acts) THEN acts.v ELSE captured
        ELSE captured

\* capture.absorb(part)
capture_absorb(part) ==
    /\ Len(absorbed) < MaxParts
    /\ capture' = absorb(capture, part)
    /\ absorbed' = Append(absorbed, part)
    /\ UNCHANGED <<busVars, gwVars, planVars, sideVars>>

InitCapture == BusIdle /\ GwIdle /\ CapIdle /\ PlanIdle /\ SideIdle

NextCapture == \E part \in Parts : capture_absorb(part)

SpecCapture == InitCapture /\ [][NextCapture]_vars

\* ---------------------------------------------------- planning endpoint
\* texts as sequences of characters
UserTexts == {<<"a">>, <<"<", "b", ">">>}
\* req.context: absent, a mapping of paths to sources under "files", or
\* "files" holding something else
Contexts == {"None", "files", "files is a list"}

SessionId == IF req.session_id = None THEN GeneratedId ELSE req.session_id

\* the trace calls of a handler's step made last first
RECURSIVE trace_backwards(_, _, _)
trace_backwards(st, sid, kps) ==
    IF kps = <<>> THEN st
    ELSE LET s2 == trace_backwards(st, sid, Tail(kps))
             ev == NewEvent(s2.log, sid, kps[1][1], kps[1][2], kps[1][3])
             t == trace(s2.reg, s2.bufs, sid, ev)
         IN  [reg |-> t.reg, bufs |-> t.bufs, log |-> Append(s2.log, ev)]

\* trace(sid, kind, payload) for each <<kind, msg, n>> of kps, in order
RECURSIVE trace_all(_, _, _)
trace_all(st, sid, kps) ==
    IF kps = <<>> THEN st
    ELSE LET ev == NewEvent(st.log, sid, kps[1][1], kps[1][2], kps[1][3])
             t == trace(st.reg, st.bufs, sid, ev)
         IN  trace_all([reg |-> t.reg, bufs |-> t.bufs, log |-> Append(st.log, ev)],
                       sid, Tail(kps))

Traced(sid, kps) ==
    LET st == trace_all([reg |-> SESSION_QUEUES, bufs |-> qbuf, log |-> pushed],
                        sid, kps)
    IN  /\ SESSION_QUEUES' = st.reg
        /\ qbuf' = st.bufs
        /\ pushed' = st.log

Token == <<"token", "", 0>>
ModelStop == <<"model.stop", "plan", 0>>
ErrorAt(where) == <<"error", where, 0>>
Step(msg) == <<"step", msg, 0>>

\* _context_blob(context) raises: files.items() on a value that is no mapping
context_blob_raises(context) == context = "files is a list"

\* str.replace on a text
replace(text, old, new) ==
    [i \in 1..Len(text) |-> IF text[i] = old THEN new ELSE text[i]]

\* a synthesizer that returns no action
synthesize_nothing(user_text) == <<>>

\* _synthesize_minimal_action
synthesize_minimal_action(user_text) ==
    <<[type |-> "update_file", path |-> "app/page.tsx",
       contents |-> replace(replace(user_text, "<", "&lt;"), ">", "&gt;")]>>

\* the parts a planning response is made of here
PlanParts ==
    {TextPart, NoActionsToolUse,
     ActionsToolUse(<<Act("update_file", "app/page.tsx")>>),
     ActionsToolUse(<<UntypedAct>>)}

\* the events of a converse_stream response
StreamEvents ==
    {[k |-> "contentBlockDelta.text"], [k |-> "contentBlockDelta.toolUse"],
     [k |-> "contentBlockStart.toolUse"], [k |-> "contentBlockStop.toolUse"],
     [k |-> "metadata.usage"], [k |-> "messageStop"]}
        \cup {[k |-> "message", part |-> part] : part \in PlanParts}

SeqsUpTo(S, n) == UNION {[1..k -> S] : k \in 0..n}

HasText(part) == Truthy(Get(part, "text"))

RECURSIVE absorb_all(_, _)
absorb_all(captured, parts) ==
    IF parts = <<>> THEN captured
    ELSE absorb_all(absorb(captured, parts[1]), Tail(parts))

\* every action is a mapping with a "type": a["type"] raises otherwise
summary_raises(acts) == \E i \in 1..Len(acts) : "type" \notin DOMAIN acts[i]

CountType(acts, type) ==
    Cardinality({i \in 1..Len(acts) : acts[i].type = type})

\* build_assistant_message: the counts its text reports
build_assistant_message(user_text, acts) ==
    [created |-> CountType(acts, "create_file"),
     updated |-> CountType(acts, "update_file"),
     deleted |-> CountType(acts, "delete_file"),
     ran |-> CountType(acts, "run_command"),
     asked |-> user_text]

\* the model calls of a plan request: the method of brx, the system prompt
\* and the tools it is given
ModelCall(api, system, tools) == [api |-> api, system |-> system, tools |-> tools]

\* POST /invocations: the session id, planning.start, model.start
plan_endpoint(input, context, sid) ==
    /\ pc = "idle"
    /\ req' = [input |-> input, context |-> context, session_id |-> sid]
    /\ pc' = "stream"
    /\ Traced(IF sid = None THEN GeneratedId ELSE sid,
              <<Step("planning.start"), <<"model.start", "plan", 0>>>>)
    /\ UNCHANGED <<sub, gwVars, sideVars, timeVars,
                   capVars, assistant_chunks, actions, response,
                   calls, json_result, fail_stage, stream_seen>>

\* run_until_complete(wait_for(_run_stream(), 20)) starts: the event loop
\* refuses (no loop in this thread, or one already running) before any call,
\* or brx.converse_stream is called and raises or returns a stream
stream_open(outcome) ==
    /\ pc = "stream"
    /\ calls' = IF outcome = "no loop" THEN calls
                ELSE Append(calls, ModelCall("converse_stream", "PLANNER_SYSTEM",
                                       "EMIT_PLAN_TOOL"))
    /\ pc' = IF outcome = "stream" THEN "streaming" ELSE "nonstream"
    /\ stream_clock' = 0
    /\ attempt' = [outcome |-> IF outcome = "stream" THEN "running" ELSE "raised",
                   overran |-> FALSE, chunks |-> 0]
    /\ UNCHANGED <<busVars, gwVars, sideVars, capVars, req, assistant_chunks,
                   actions, response, json_result, fail_stage, stream_seen>>

\* time passes while _run_stream runs: it is a coroutine without an await,
\* so the loop cannot run wait_for's timer before it has returned or raised
stream_tick ==
    /\ pc = "streaming"
    /\ stream_clock <= StreamTimeout
    /\ stream_clock' = stream_clock + 1
    /\ UNCHANGED <<busVars, gwVars, sideVars, capVars, pc, req, assistant_chunks,
                   actions, response, calls, json_result, fail_stage,
                   stream_seen, attempt>>

\* the body of: for ev in stream.get("stream")
stream_event(ev) ==
    /\ pc = "streaming"
    /\ stream_seen < MaxStream
    /\ stream_seen' = stream_seen + 1
    /\ capture' = IF ev.k = "message" THEN absorb(capture, ev.part) ELSE capture
    /\ absorbed' = IF ev.k = "message" THEN Append(absorbed, ev.part) ELSE absorbed
    /\ assistant_chunks' =
          IF ev.k = "contentBlockDelta.text" \/ (ev.k = "message" /\ HasText(ev.part))
          THEN Append(assistant_chunks, "t") ELSE assistant_chunks
    /\ Traced(SessionId,
          CASE ev.k = "contentBlockDelta.text" -> <<Token>>
            [] ev.k = "contentBlockDelta.toolUse" -> <<<<"tool.delta", "", 0>>>>
            [] ev.k = "contentBlockStart.toolUse" -> <<<<"tool.start", "", 0>>>>
            [] ev.k = "contentBlockStop.toolUse" -> <<<<"tool.stop", "", 0>>>>
            [] ev.k = "metadata.usage" -> <<<<"meta", "", 0>>>>
            [] ev.k = "messageStop" -> <<ModelStop>>
            [] ev.k = "message" -> IF HasText(ev.part) THEN <<Token>> ELSE <<>>)
    /\ UNCHANGED <<sub, gwVars, sideVars, timeVars,
                   pc, req, actions, response, calls, json_result,
                   fail_stage>>

\* wait_for is left, with _run_stream's result or exception, after the time
\* _run_stream took, the deadline behind it or not
wait_for_returns(outcome) ==
    /\ attempt' = [outcome |-> outcome, overran |-> stream_clock > StreamTimeout,
                   chunks |-> Len(assistant_chunks)]
    /\ stream_clock' = 0

\* the stream is exhausted: _run_stream returns
stream_end ==
    /\ pc = "streaming"
    /\ pc' = "captured"
    /\ wait_for_returns("returned")
    /\ UNCHANGED <<busVars, gwVars, sideVars, capVars, req, assistant_chunks,
                   actions, response, calls, json_result, fail_stage,
                   stream_seen>>

\* reading the stream raises (the read timeout, a broken connection)
stream_raise ==
    /\ pc = "streaming"
    /\ pc' = "nonstream"
    /\ wait_for_returns("raised")
    /\ UNCHANGED <<busVars, gwVars, sideVars, capVars, req, assistant_chunks,
                   actions, response, calls, json_result, fail_stage,
                   stream_seen>>

\* a handler that traces the error and then answers nothing
Fails_unanswered(stage, before) ==
    /\ pc' = "unanswered"
    /\ fail_stage' = stage
    /\ response' = response
    /\ Traced(SessionId, before \o <<ErrorAt("invocations")>>)

\* except Exception as e: trace error, HTTPException(500)
Fails(stage, before) ==
    /\ pc' = "failed"
    /\ fail_stage' = stage
    /\ response' = [status |-> "500"]
    /\ Traced(SessionId, before \o <<ErrorAt("invocations")>>)

\* except Exception as stream_err: the blocking brx.converse raises
nonstream_raise ==
    /\ pc = "nonstream"
    /\ calls' = Append(calls, ModelCall("converse", "PLANNER_SYSTEM", "EMIT_PLAN_TOOL"))
    /\ Fails("nonstream", <<>>)
    /\ UNCHANGED <<sub, gwVars, sideVars, timeVars,
                   capVars, req, assistant_chunks, actions,
                   json_result, stream_seen>>

\* except Exception as stream_err: the blocking brx.converse returns parts
nonstream_reply(parts) ==
    /\ pc = "nonstream"
    /\ calls' = Append(calls, ModelCall("converse", "PLANNER_SYSTEM", "EMIT_PLAN_TOOL"))
    /\ capture' = absorb_all(capture, parts)
    /\ absorbed' = absorbed \o parts
    /\ assistant_chunks' =
          assistant_chunks \o [i \in 1..Len(SelectSeq(parts, HasText)) |-> "t"]
    /\ Traced(SessionId,
          [i \in 1..Len(SelectSeq(parts, HasText)) |-> Token] \o <<ModelStop>>)
    /\ pc' = "captured"
    /\ UNCHANGED <<sub, gwVars, sideVars, timeVars,
                   req, actions, response, json_result, fail_stage,
                   stream_seen>>

\* a fallback that is run whatever was captured
need_json_always(captured) == TRUE

\* if not actions: after actions = capture.actions
need_json(captured) == captured = <<>>

\* actions = capture.actions; when empty, _json_only_plan is entered: it
\* traces json-plan.start and builds the snapshot before its try block
plan_capture ==
    /\ pc = "captured"
    /\ IF ~need_json(capture)
       THEN /\ actions' = capture
            /\ pc' = "respond"
            /\ UNCHANGED <<busVars, response, fail_stage>>
       ELSE IF context_blob_raises(req.context)
       THEN /\ Fails("json_only_plan", <<Step("json-plan.start")>>)
            /\ UNCHANGED <<sub, actions>>
       ELSE /\ Traced(SessionId, <<Step("json-plan.start")>>)
            /\ pc' = "json"
            /\ UNCHANGED <<sub, actions, response, fail_stage>>
    /\ UNCHANGED <<gwVars, sideVars, timeVars,
                   capVars, req, assistant_chunks, calls, json_result,
                   stream_seen>>

\* the text of the JSON-only response, as tokens: braces, brackets, prose
\* and the one member of an object
LBrace == [c |-> "{"]
RBrace == [c |-> "}"]
LBracket == [c |-> "["]
RBracket == [c |-> "]"]
Prose == [c |-> "prose"]
Member(key, val) == [c |-> "member", key |-> key, val |-> val]
Bodies ==
    {Member("summary", Str("s")), Member("actions", Str("none")),
     Member("actions", Null)}
        \cup {Member("actions", List(acts)) : acts \in ActionLists}
\* what the model can answer: nothing, prose, an object, an object inside
\* prose, a cut object, braces in the wrong order, an array
JsonTexts ==
    {<<>>, <<Prose>>, <<LBrace, RBrace>>, <<RBrace, LBrace>>,
     <<LBracket, RBracket>>}
        \cup {<<LBrace, b, RBrace>> : b \in Bodies}
        \cup {<<Prose, LBrace, b, RBrace, Prose>> : b \in Bodies}
        \cup {<<LBrace, b>> : b \in Bodies}
        \cup {<<LBrace, b, RBrace, Prose, RBrace>> : b \in Bodies}

Positions(text, tok) == {i \in 1..Len(text) : text[i] = tok}
\* text.find(tok), text.rfind(tok): a position from 1, 0 when absent
find(text, tok) ==
    IF Positions(text, tok) = {} THEN 0
    ELSE CHOOSE i \in Positions(text, tok) : \A j \in Positions(text, tok) : i <= j
rfind(text, tok) ==
    IF Positions(text, tok) = {} THEN 0
    ELSE CHOOSE i \in Positions(text, tok) : \A j \in Positions(text, tok) : j <= i

\* if start >= 0 and end > start: text = text[start:end+1]
json_slice(text) ==
    LET start == find(text, LBrace)
        end == rfind(text, RBrace)
    IN  IF start > 0 /\ end > start THEN SubSeq(text, start, end) ELSE text

\* json.loads: the value, or a JSONDecodeError
json_loads(text) ==
    IF text = <<LBrace, RBrace>> THEN [ok |-> TRUE, val |-> EmptyDict]
    ELSE IF text = <<LBracket, RBracket>> THEN [ok |-> TRUE, val |-> List(<<>>)]
    ELSE IF Len(text) = 3 /\ text[1] = LBrace /\ text[3] = RBrace
            /\ text[2].c = "member"
    THEN [ok |-> TRUE, val |-> Dict(text[2].key :> text[2].val)]
    ELSE [ok |-> FALSE, val |-> Null]

JsonError(message) == [acts |-> <<>>, traces |-> <<ErrorAt("json_plan")>>, error |-> message]

\* _json_only_plan from its try block on; reply is "raises" or the text
json_only_plan(reply) ==
    IF reply.raises THEN JsonError("converse raised")
    ELSE IF reply.text = <<>> THEN JsonError("empty text")
    ELSE LET data == json_loads(json_slice(reply.text))
         IN  IF ~data.ok THEN JsonError("JSONDecodeError")
             ELSE IF ~IsDict(data.val) THEN JsonError("AttributeError")
             ELSE LET acts == IF "actions" \in DOMAIN data.val.v
                              THEN data.val.v["actions"] ELSE List(<<>>)
                  IN  IF IsList(acts)
                      THEN [acts |-> acts.v,
                            traces |-> <<<<"step", "json-plan.ok", Len(acts.v)>>>>,
                            error |-> ""]
                      ELSE JsonError("no actions key")

JsonReplies ==
    {[raises |-> TRUE, text |-> <<>>]}
        \cup {[raises |-> FALSE, text |-> t] : t \in JsonTexts}

\* brx.converse(JSON_PLAN_SYSTEM, ...) returns or raises; back in
\* plan_endpoint: if not actions: synthesize.minimal
json_reply(reply) ==
    /\ pc = "json"
    /\ calls' = Append(calls, ModelCall("converse", "JSON_PLAN_SYSTEM", None))
    /\ LET r == json_only_plan(reply)
       IN  /\ json_result' = [run |-> TRUE, acts |-> r.acts, error |-> r.error,
                              reply |-> reply]
           /\ IF r.acts = <<>>
              THEN /\ actions' = synthesize_minimal_action(req.input)
                   /\ Traced(SessionId, r.traces \o <<Step("synthesize.minimal")>>)
              ELSE /\ actions' = r.acts
                   /\ Traced(SessionId, r.traces)
    /\ pc' = "respond"
    /\ UNCHANGED <<sub, gwVars, sideVars, timeVars,
                   capVars, req, assistant_chunks, response,
                   fail_stage, stream_seen>>

\* planning.response, the summary, PlanResponse(...)
plan_respond ==
    /\ pc = "respond"
    /\ IF summary_raises(actions)
       THEN Fails("summary", <<<<"step", "planning.response", Len(actions)>>>>)
       ELSE /\ Traced(SessionId, <<<<"step", "planning.response", Len(actions)>>>>)
            /\ response' = [status |-> "200",
                            assistant_message |->
                                build_assistant_message(req.input, actions),
                            actions |-> actions]
            /\ pc' = "done"
            /\ UNCHANGED fail_stage
    /\ UNCHANGED <<sub, gwVars, sideVars, timeVars,
                   capVars, req, assistant_chunks, actions, calls,
                   json_result, stream_seen>>

InitPlan == BusIdle /\ GwIdle /\ CapIdle /\ PlanIdle /\ SideIdle

NextPlan ==
    \/ \E input \in UserTexts, context \in Contexts, sid \in {None, "s1"} :
          plan_endpoint(input, context, sid)
    \/ \E outcome \in {"stream", "raises", "no loop"} : stream_open(outcome)
    \/ \E ev \in StreamEvents : stream_event(ev)
    \/ stream_tick
    \/ stream_end
    \/ stream_raise
    \/ nonstream_raise
    \/ \E parts \in SeqsUpTo(PlanParts, MaxRespParts) : nonstream_reply(parts)
    \/ plan_capture
    \/ \E reply \in JsonReplies : json_reply(reply)
    \/ plan_respond

SpecPlan == InitPlan /\ [][NextPlan]_vars

\* One request (a text, a session id, each kind of context) followed to its
\* answer: the stream gives a text delta, a message with a tool call or
\* messageStop; the blocking call a text or a tool call; the JSON call
\* nothing, an object with actions, or it raises.
FairEvents ==
    {[k |-> "contentBlockDelta.text"], [k |-> "messageStop"],
     [k |-> "message", part |-> ActionsToolUse(<<UntypedAct>>)]}
FairParts == {TextPart, ActionsToolUse(<<Act("update_file", "app/page.tsx")>>)}
FairReplies ==
    {[raises |-> TRUE, text |-> <<>>], [raises |-> FALSE, text |-> <<>>],
     [raises |-> FALSE,
      text |-> <<LBrace, Member("actions", List(<<UntypedAct>>)), RBrace>>]}

\* The steps a started request takes when every gateway call returns or
\* raises, the stream ends or breaks, and the handler's thread keeps running.
PlanProgress ==
    \/ \E outcome \in {"stream", "raises", "no loop"} : stream_open(outcome)
    \/ stream_end
    \/ stream_raise
    \/ nonstream_raise
    \/ \E parts \in SeqsUpTo(FairParts, MaxRespParts) : nonstream_reply(parts)
    \/ plan_capture
    \/ \E reply \in FairReplies : json_reply(reply)
    \/ plan_respond

NextPlanFair ==
    \/ \E context \in Contexts : plan_endpoint(<<"a">>, context, "s1")
    \/ \E ev \in FairEvents : stream_event(ev)
    \/ stream_tick
    \/ PlanProgress

SpecPlanFair == InitPlan /\ [][NextPlanFair]_vars /\ WF_vars(PlanProgress)

\* ------------------------------------------------------- _context_blob
\* strings are sequences of characters
Rels == {<<"a">>, <<"b">>, <<"c", "d">>}
\* the contents of a file: n characters
Src(n) == [i \in 1..n |-> IF i % 2 = 1 THEN "x" ELSE "y"]
\* context["files"]: a mapping, in its iteration order; a path is a key once
FileMaps ==
    {f \in SeqsUpTo({[rel |-> rel, src |-> Src(n)] : rel \in Rels, n \in 0..MaxSrc},
                    MaxFiles) :
        \A i, j \in 1..Len(f) : f[i].rel = f[j].rel => i = j}
\* _context_blob(context, char_budget); context: None (or {}), a mapping
\* without "files", one with "files"
BlobCalls ==
    {[NoBlob EXCEPT !.pc = "called", !.context = "files", !.files = f,
                    !.char_budget = b] : f \in FileMaps, b \in 0..MaxBudget}
        \cup {[NoBlob EXCEPT !.pc = "called", !.context = c, !.char_budget = b] :
                 c \in {"None", "no files key"}, b \in 0..MaxBudget}

\* header = f"\n--- FILE: {rel} ---\n"
Header(rel) ==
    <<"\n", "-", "-", "-", " ", "F", "I", "L", "E", ":", " ">> \o rel
        \o <<" ", "-", "-", "-", "\n">>

\* a take that forgets the header
take_without_header(char_budget, used, header) ==
    IF char_budget - used > 0 THEN char_budget - used ELSE 0

\* take = max(0, char_budget - used - len(header))
take(char_budget, used, header) ==
    IF char_budget - used - Len(header) > 0
    THEN char_budget - used - Len(header) ELSE 0

\* body = (src if len(src) <= take else src[:take])
body(src, n) == IF Len(src) <= n THEN src ELSE SubSeq(src, 1, n)

\* "\n".join(chunks) in the place of "".join(chunks)
RECURSIVE join_lines(_)
join_lines(chunks) ==
    IF chunks = <<>> THEN <<>>
    ELSE IF Len(chunks) = 1 THEN chunks[1]
    ELSE chunks[1] \o <<"\n">> \o join_lines(Tail(chunks))

\* "".join(chunks)
RECURSIVE join(_)
join(chunks) ==
    IF chunks = <<>> THEN <<>> ELSE chunks[1] \o join(Tail(chunks))

blobOther ==
    <<busVars, gwVars, capVars, planVars, PREVIEW_HTML, gen, thr, chatVars>>

\* if not context or "files" not in context: return ""; else the loop starts
blob_enter ==
    /\ blob.pc = "called"
    /\ blob' = IF blob.context = "files"
               THEN [blob EXCEPT !.pc = "loop", !.at = 1]
               ELSE [blob EXCEPT !.pc = "returned", !.result = <<>>]
    /\ UNCHANGED blobOther

\* one iteration of: for rel, src in files.items()
blob_file ==
    /\ blob.pc = "loop"
    /\ blob.at <= Len(blob.files)
    /\ LET rel == blob.files[blob.at].rel
           src == blob.files[blob.at].src
           header == Header(rel)
           n == take(blob.char_budget, blob.used, header)
           used == blob.used + Len(header) + Len(body(src, n))
       IN  blob' =
             IF n <= 0 THEN [blob EXCEPT !.pc = "join"]
             ELSE [blob EXCEPT
                      !.chunks = Append(@, header \o body(src, n)),
                      !.used = used,
                      !.at = @ + 1,
                      !.pc = IF used >= blob.char_budget THEN "join" ELSE "loop"]
    /\ UNCHANGED blobOther

\* the loop is over (exhausted or left by break): return "".join(chunks)
blob_return ==
    /\ \/ blob.pc = "join"
       \/ blob.pc = "loop" /\ blob.at > Len(blob.files)
    /\ blob' = [blob EXCEPT !.pc = "returned", !.result = join(blob.chunks)]
    /\ UNCHANGED blobOther

InitBlob ==
    /\ BusIdle /\ GwIdle /\ CapIdle /\ PlanIdle /\ GenIdle /\ RaceIdle
    /\ ChatIdle
    /\ blob \in BlobCalls

NextBlob == blob_enter \/ blob_file \/ blob_return

SpecBlob == InitBlob /\ [][NextBlob]_vars

\* ------------------------------------------------- preview, code_generate
\* the lower-case letter of each upper-case letter
ToLower ==
    [A |-> "a", B |-> "b", C |-> "c", D |-> "d", E |-> "e", F |-> "f",
     G |-> "g", H |-> "h", I |-> "i", J |-> "j", K |-> "k", L |-> "l",
     M |-> "m", N |-> "n", O |-> "o", P |-> "p", Q |-> "q", R |-> "r",
     S |-> "s", T |-> "t", U |-> "u", V |-> "v", W |-> "w", X |-> "x",
     Y |-> "y", Z |-> "z"]
\* str.lower()
lower(text) ==
    [i \in 1..Len(text) |->
        IF text[i] \in DOMAIN ToLower THEN ToLower[text[i]] ELSE text[i]]
\* str.endswith(suffix)
endswith(text, suffix) ==
    /\ Len(text) >= Len(suffix)
    /\ SubSeq(text, Len(text) - Len(suffix) + 1, Len(text)) = suffix
\* path.split("/")[-1]
basename(path) ==
    LET slashes == {i \in 1..Len(path) : path[i] = "/"}
    IN  IF slashes = {} THEN path
        ELSE SubSeq(path, (CHOOSE i \in slashes : \A j \in slashes : j <= i) + 1,
                    Len(path))

IndexHtml == <<"i", "n", "d", "e", "x", ".", "h", "t", "m", "l">>
\* {"layout.tsx", "app.tsx", "App.tsx", "index.tsx"}
KnownTsx ==
    {<<"l", "a", "y", "o", "u", "t", ".", "t", "s", "x">>,
     <<"a", "p", "p", ".", "t", "s", "x">>,
     <<"A", "p", "p", ".", "t", "s", "x">>,
     <<"i", "n", "d", "e", "x", ".", "t", "s", "x">>}

\* the paths the model names
Paths ==
    {IndexHtml, <<"d", "/">> \o IndexHtml, <<"m", "y">> \o IndexHtml,
     <<"I", "N", "D", "E", "X", ".", "H", "T", "M", "L">>,
     <<"A", "p", "p", ".", "t", "s", "x">>, <<"p", ".", "T", "S", "X">>,
     <<"a", ".", "h", "t", "m", "l">>, <<"n", ".", "m", "d">>}
\* "contents": null, a value that is no string (an f-string prints it None)
NullContents == <<None>>
Contents == {<<"<p>hi</p>">>, <<"y">>, NullContents}
\* a file of emit_files: a mapping with "contents" and, but for one, "path"
GenFiles ==
    {[has_path |-> TRUE, path |-> path, contents |-> c] : path \in Paths, c \in Contents}
        \cup {[has_path |-> FALSE, path |-> <<>>, contents |-> c] : c \in Contents}

\* (f.get("path") or "")
path_or_empty(f) == IF f.has_path THEN f.path ELSE <<>>

\* _tsx_wrapper: the shell around the file name and the code
tsx_wrapper(tsx_filename, tsx_code) ==
    <<"<!doctype html>..<title>">> \o tsx_filename
        \o <<" preview</title>..<script type=\"text/babel\">">> \o tsx_code
        \o <<"try {..} catch (e) {..}</script></body></html>">>

\* for f in files: if ...: return: the first of the files that pass the test
FirstOf(S) == CHOOSE i \in S : \A j \in S : i <= j

ends_index_html(f) == endswith(lower(path_or_empty(f)), IndexHtml)
is_tsx(f) ==
    \/ basename(path_or_empty(f)) \in KnownTsx
    \/ endswith(lower(basename(path_or_empty(f))), <<".", "t", "s", "x">>)
ends_html(f) == endswith(lower(path_or_empty(f)), <<".", "h", "t", "m", "l">>)

\* _choose_preview_html
choose_preview_html(files) ==
    LET index == {i \in 1..Len(files) : ends_index_html(files[i])}
        tsx == {i \in 1..Len(files) : is_tsx(files[i])}
        html == {i \in 1..Len(files) : ends_html(files[i])}
    IN  IF index # {} THEN files[FirstOf(index)].contents
        ELSE IF tsx # {}
        THEN tsx_wrapper(path_or_empty(files[FirstOf(tsx)]), files[FirstOf(tsx)].contents)
        ELSE IF html # {} THEN files[FirstOf(html)].contents
        ELSE IF files # <<>>
        THEN <<"<pre>">>
                \o (IF files[1].has_path THEN files[1].path ELSE <<"(no path)">>)
                \o <<"\\n\\n">> \o files[1].contents \o <<"</pre>">>
        ELSE <<"<p>(no content)</p>">>

genOther == <<sub, gwVars, capVars, planVars, blob, thr, chatVars>>

\* POST /code/generate, up to the call of brx.converse
code_generate(sid) ==
    /\ gen.pc \in {"idle", "done"}
    /\ gen.n < MaxGens
    /\ gen' = [pc |-> "calling", n |-> gen.n + 1, session_id |-> sid,
               files |-> <<>>, status |-> "none"]
    /\ Traced(IF sid = None THEN NoSession ELSE sid, <<<<"model.start", "codegen", 0>>>>)
    /\ UNCHANGED <<PREVIEW_HTML, genOther>>

\* except Exception as e: trace error, HTTPException(500)
codegen_fails ==
    /\ gen' = [gen EXCEPT !.pc = "done", !.status = "500"]
    /\ Traced(IF gen.session_id = None THEN NoSession ELSE gen.session_id,
              <<ErrorAt("code_generate")>>)
    /\ UNCHANGED <<PREVIEW_HTML, genOther>>

\* brx.converse(CODEGEN_SYSTEM, ...) raises
codegen_raise ==
    /\ gen.pc = "calling"
    /\ codegen_fails

\* what the model answers: an emit_files tool call or none, its files, a text
GenReplies ==
    {[tool |-> t, files |-> f, text |-> x] :
        t \in BOOLEAN, f \in SeqsUpTo(GenFiles, MaxGenFiles), x \in {<<>>, <<"t">>}}

\* the files of the first emit_files tool call; else the text as OUTPUT.txt
files_of(reply) ==
    LET files == IF reply.tool THEN reply.files ELSE <<>>
    IN  IF files = <<>> /\ reply.text # <<>>
        THEN <<[has_path |-> TRUE,
                path |-> <<"O", "U", "T", "P", "U", "T", ".", "t", "x", "t">>,
                contents |-> reply.text]>>
        ELSE files

\* CodeGenResponse(files=files) raises a validation error: files is
\* declared List[Dict[str, str]] and a value of a file is no string
response_raises(files) ==
    \E i \in 1..Len(files) : files[i].contents = NullContents

\* brx.converse returns: the files, the preview, the plan and model.stop
\* events of a request with a session id, CodeGenResponse(files=files),
\* whose validation error reaches the except branch like any other
codegen_reply(reply) ==
    /\ gen.pc = "calling"
    /\ ~reply.tool => reply.files = <<>>
    /\ IF files_of(reply) = <<>>
       THEN codegen_fails
       ELSE /\ PREVIEW_HTML' = choose_preview_html(files_of(reply))
            /\ gen' = [gen EXCEPT !.pc = "done",
                                  !.status = IF response_raises(files_of(reply))
                                             THEN "500" ELSE "200",
                                  !.files = files_of(reply)]
            /\ Traced(IF gen.session_id = None THEN NoSession ELSE gen.session_id,
                      (IF gen.session_id # None
                       THEN <<<<"plan", "", Len(files_of(reply))>>,
                              <<"model.stop", "codegen", 0>>>>
                       ELSE <<>>)
                      \o (IF response_raises(files_of(reply))
                          THEN <<ErrorAt("code_generate")>> ELSE <<>>))
            /\ UNCHANGED genOther

InitCodegen == BusIdle /\ GwIdle /\ CapIdle /\ PlanIdle /\ SideIdle

NextCodegen ==
    \/ \E sid \in {None, "s1"} : code_generate(sid)
    \/ codegen_raise
    \/ \E reply \in GenReplies : codegen_reply(reply)

SpecCodegen == InitCodegen /\ [][NextCodegen]_vars

\* ------------------------------------- handlers in threadpool threads
\* plan_endpoint, chat_send and code_generate are def, not async def: each
\* request runs in a thread of the pool, and another thread can run between
\* two statements of _get_queue and trace.
raceOther ==
    <<sub, gwVars, capVars, planVars, blob, PREVIEW_HTML, gen, chatVars>>

\* a request arrives: its handler will call trace(sid, ...) n times
handler_start(t, sid, n) ==
    /\ thr[t].pc = "idle"
    /\ thr' = [thr EXCEPT ![t] = [pc |-> "get", sid |-> sid, q |-> NoQueue, left |-> n]]
    /\ UNCHANGED <<SESSION_QUEUES, qbuf, pushed, raceOther>>

\* _get_queue: q = SESSION_QUEUES.get(session_id); if q is None: ...
get_queue_get(t) ==
    /\ thr[t].pc = "get"
    /\ thr' = [thr EXCEPT ![t].q = SESSION_QUEUES[thr[t].sid],
                          ![t].pc = IF SESSION_QUEUES[thr[t].sid] = NoQueue
                                    THEN "set" ELSE "put"]
    /\ UNCHANGED <<SESSION_QUEUES, qbuf, pushed, raceOther>>

\* _get_queue: q = asyncio.Queue(); SESSION_QUEUES[session_id] = q
get_queue_set(t) ==
    /\ thr[t].pc = "set"
    /\ qbuf' = Append(qbuf, <<>>)
    /\ SESSION_QUEUES' = [SESSION_QUEUES EXCEPT ![thr[t].sid] = Len(qbuf) + 1]
    /\ thr' = [thr EXCEPT ![t].q = Len(qbuf) + 1, ![t].pc = "put"]
    /\ UNCHANGED <<pushed, raceOther>>

\* trace: q.put_nowait((kind, payload)); the handler goes on or returns
trace_put_nowait(t) ==
    /\ thr[t].pc = "put"
    /\ LET ev == NewEvent(pushed, thr[t].sid, "token", "", t)
       IN  /\ qbuf' = [qbuf EXCEPT ![thr[t].q] = Append(@, ev)]
           /\ pushed' = Append(pushed, ev)
    /\ thr' = [thr EXCEPT ![t].left = @ - 1,
                          ![t].pc = IF thr[t].left = 1 THEN "done" ELSE "get"]
    /\ UNCHANGED <<SESSION_QUEUES, raceOther>>

InitRace == BusIdle /\ GwIdle /\ CapIdle /\ PlanIdle /\ SideIdle

NextRace ==
    \/ \E t \in Threads, sid \in Sessions, n \in 1..MaxPushes : handler_start(t, sid, n)
    \/ \E t \in Threads : get_queue_get(t)
    \/ \E t \in Threads : get_queue_set(t)
    \/ \E t \in Threads : trace_put_nowait(t)

SpecRace == InitRace /\ [][NextRace]_vars

\* ------------------------------------------------------------ chat_send
\* chat_send is def, not async def: each request runs in a thread of the
\* pool, and another thread can run between two of its statements.
chatOther == <<sub, gwVars, capVars, planVars, blob, PREVIEW_HTML, gen, thr>>

\* the requests started so far
ChatsStarted == chat[1].n + chat[2].n

\* req.user_input of thread t's n-th request: the texts are chosen distinct
\* (and shorter than the 220 characters of line 566)
user_input(t, n) == <<"msg", t, n>>

\* {"role": role, "content": [{"text": text}]}
Turn(role, text) == [role |-> role, text |-> text]

\* _get_history: _SESSIONS.setdefault(session_id, [])
get_history(sessions, sid) ==
    IF sid \in DOMAIN sessions THEN sessions ELSE sessions @@ (sid :> <<>>)

\* the content of a chat response
ChatContents == {<<>>, <<EmptyPart>>, <<TextPart>>}

\* "\n".join(c.get("text", "") for c in content if c.get("text")).strip()
\* or "(no text output)": the texts, as the lines of the joined text
assistant_text(content) ==
    LET texts == SelectSeq(content, HasText)
    IN  IF texts = <<>> THEN <<"(no text output)">>
        ELSE [i \in 1..Len(texts) |-> Get(texts[i], "text").v]

\* POST /chat/send up to the call of brx.converse: the session id, the
\* history, the messages, model.start
chat_send(t, sid) ==
    /\ chat[t].pc \in {"idle", "done", "failed"}
    /\ ChatsStarted < MaxChats
    \* _new_session_id() is a fresh uuid4: one request of a run draws one
    /\ sid = None => GeneratedId \notin DOMAIN SESSIONS
    /\ LET session_id == IF sid = None THEN GeneratedId ELSE sid
           text == user_input(t, chat[t].n + 1)
           history == get_history(SESSIONS, session_id)[session_id]
       IN  /\ SESSIONS' = get_history(SESSIONS, session_id)
           /\ chat' = [chat EXCEPT ![t] =
                  [pc |-> "called", n |-> @.n + 1,
                   req |-> [session_id |-> sid, user_input |-> text],
                   session_id |-> session_id,
                   messages |-> Append(history, Turn("user", text)),
                   assistant_text |-> <<>>, response |-> NoResponse]]
           /\ Traced(session_id, <<<<"model.start", "chat", 0>>>>)
    /\ UNCHANGED chatOther

\* a handler that records the user's turn before it reports the failure
chat_raise_recording(t) ==
    /\ chat[t].pc = "called"
    /\ chat' = [chat EXCEPT ![t].pc = "failed", ![t].response = [status |-> "500"]]
    /\ SESSIONS' = [SESSIONS EXCEPT ![chat[t].session_id] =
                        Append(@, Turn("user", chat[t].req.user_input))]
    /\ Traced(IF chat[t].req.session_id = None THEN NoSession
              ELSE chat[t].req.session_id, <<ErrorAt("chat_send")>>)
    /\ UNCHANGED chatOther

\* brx.converse(CHAT_SYSTEM, messages) raises: except Exception as e: trace
\* error to req.session_id or "(no-session)", HTTPException(500)
chat_raise(t) ==
    /\ chat[t].pc = "called"
    /\ chat' = [chat EXCEPT ![t].pc = "failed", ![t].response = [status |-> "500"]]
    /\ Traced(IF chat[t].req.session_id = None THEN NoSession
              ELSE chat[t].req.session_id, <<ErrorAt("chat_send")>>)
    /\ UNCHANGED <<SESSIONS, chatOther>>

\* brx.converse returns: assistant_text, the token and model.stop events
chat_reply(t, content) ==
    /\ chat[t].pc = "called"
    /\ chat' = [chat EXCEPT ![t].pc = "append user",
                            ![t].assistant_text = assistant_text(content)]
    /\ Traced(chat[t].session_id, <<Token, <<"model.stop", "chat", 0>>>>)
    /\ UNCHANGED <<SESSIONS, chatOther>>

\* history.append({"role": "user", ...}): history is the list _SESSIONS holds
chat_append_user(t) ==
    /\ chat[t].pc = "append user"
    /\ SESSIONS' = [SESSIONS EXCEPT ![chat[t].session_id] =
                        Append(@, Turn("user", chat[t].req.user_input))]
    /\ chat' = [chat EXCEPT ![t].pc = "append assistant"]
    /\ UNCHANGED <<busVars, chatOther>>

\* history.append({"role": "assistant", ...})
chat_append_assistant(t) ==
    /\ chat[t].pc = "append assistant"
    /\ SESSIONS' = [SESSIONS EXCEPT ![chat[t].session_id] =
                        Append(@, Turn("assistant", chat[t].assistant_text))]
    /\ chat' = [chat EXCEPT ![t].pc = "return"]
    /\ UNCHANGED <<busVars, chatOther>>

\* _SESSIONS[session_id] = history (the list it holds already);
\* ChatSendResponse(..., history_len=len(history))
chat_return(t) ==
    /\ chat[t].pc = "return"
    /\ chat' = [chat EXCEPT ![t].pc = "done",
                            ![t].response =
                                [status |-> "200",
                                 session_id |-> chat[t].session_id,
                                 assistant_output |-> chat[t].assistant_text,
                                 history_len |-> Len(SESSIONS[chat[t].session_id])]]
    /\ UNCHANGED <<SESSIONS, busVars, chatOther>>

InitChat == BusIdle /\ GwIdle /\ CapIdle /\ PlanIdle /\ SideIdle

NextChat ==
    \/ \E t \in Threads, sid \in {None, "s1", "s2"} : chat_send(t, sid)
    \/ \E t \in Threads : chat_raise(t)
    \/ \E t \in Threads, content \in ChatContents : chat_reply(t, content)
    \/ \E t \in Threads : chat_append_user(t)
    \/ \E t \in Threads : chat_append_assistant(t)
    \/ \E t \in Threads : chat_return(t)

SpecChat == InitChat /\ [][NextChat]_vars

\* ------------------------------------------------------------ claims: bus
EventsOf(seq) == SelectSeq(seq, LAMBDA o : o.t = "event")
\* ids of the events a subscription has sent to its consumer, in order
Received(s) == [i \in 1..Len(EventsOf(sub[s].out)) |-> EventsOf(sub[s].out)[i].ev.id]
\* ids of the events waiting in the queue the subscription reads
Pending(s) == [i \in 1..Len(qbuf[sub[s].q]) |-> qbuf[sub[s].q][i].id]
\* ids of the events pushed to the subscription's session since it connected
PushedSince(s) ==
    SelectSeq([i \in 1..Len(pushed) |-> i],
              LAMBDA i : i > sub[s].since /\ pushed[i].sid = sub[s].sid)

\* C4: an event pushed to a session before a subscriber connects to it is
\* never delivered to that subscriber.
C4_NoReplayBeforeConnect ==
    \A s \in Subs : \A i \in 1..Len(Received(s)) : Received(s)[i] > sub[s].since

\* C5: an event pushed to a session after its subscriber has disconnected
\* (no consumer connected, a teardown behind) is delivered to no subscriber,
\* a later one of the same session id included.
C5_DroppedAfterDisconnect ==
    \A s \in Subs : \A i \in 1..Len(Received(s)) :
        LET ev == pushed[Received(s)[i]]
        IN  ~(ev.after /\ ev.live = {})

\* C6: while a consumer of a session is connected, the queue it reads stays
\* the session's registered queue (another consumer's disconnect does not
\* remove it), so that later pushes reach it.
C6_QueueKeptForRemainingConsumer ==
    \A s \in Subs : Connected(s) => SESSION_QUEUES[sub[s].sid] = sub[s].q

HelloFirstAndOnly(s) ==
    /\ sub[s].pc \in {"new", "open", "closed"} => sub[s].out = <<>>
    /\ sub[s].pc = "waiting" =>
          /\ sub[s].out # <<>>
          /\ \A i \in 1..Len(sub[s].out) : (sub[s].out[i] = Hello) <=> (i = 1)

Qualifies(part) ==
    /\ "toolUse" \in DOMAIN part.v
    /\ "input" \in DOMAIN part.v.toolUse.v
    /\ part.v.toolUse.v.input.ty = "dict"
    /\ "actions" \in DOMAIN part.v.toolUse.v.input.v
    /\ part.v.toolUse.v.input.v.actions.ty = "list"
QualifyingAt == {i \in 1..Len(absorbed) : Qualifies(absorbed[i])}
LastQualifying == CHOOSE i \in QualifyingAt : \A j \in QualifyingAt : j <= i

\* C3: the captured list is the actions list of the last absorbed part whose
\* toolUse input is a mapping with a list-typed actions field, unmerged, and
\* the empty list when no such part was absorbed.
C3_CaptureIsLastQualifying ==
    capture = IF QualifyingAt = {} THEN <<>>
              ELSE absorbed[LastQualifying].v.toolUse.v.input.v.actions.v

\* two different non-empty lists were absorbed, then a part that does not
\* qualify
C3_Witness ==
    /\ Cardinality(QualifyingAt) >= 2
    /\ Len(absorbed) \notin QualifyingAt
    /\ \E i, j \in QualifyingAt :
          /\ i < j
          /\ absorbed[i] # absorbed[j]
          /\ absorbed[i] # ActionsToolUse(<<>>)
          /\ absorbed[j] # ActionsToolUse(<<>>)

\* C9: a gateway call whose first transport call fails validation naming
\* tools or toolConfig resubmits once without both fields, and the
\* resubmission's outcome is the call's; any other failure of the first call
\* propagates with no resubmission; at most two transport calls are made.
C9_RetryWhenToolsOrToolConfigRejected ==
    /\ Len(gw.sent) <= 2
    /\ (gw.pc \in {"returned", "raised"} /\ gw.errors # <<>>) =>
          IF /\ gw.errors[1].t = "ParamValidationError"
             /\ gw.errors[1].unknown \cap {"tools", "toolConfig"} # {}
          THEN /\ Len(gw.sent) = 2
               /\ gw.sent[2] = gw.sent[1] \ {"tools", "toolConfig"}
          ELSE /\ Len(gw.sent) = 1
               /\ gw.pc = "raised"

\* ------------------------------------------------------------ claims: plan
HasTraced(msg) == \E i \in 1..Len(pushed) : pushed[i].msg = msg
\* what the strict priority of the three strategies gives
ByPriority ==
    IF capture # <<>> THEN capture
    ELSE IF json_result.acts # <<>> THEN json_result.acts
    ELSE <<[type |-> "update_file", path |-> "app/page.tsx",
            contents |-> replace(replace(req.input, "<", "&lt;"), ">", "&gt;")]>>

\* C1: a plan request ends with a PlanResponse whose action list is not
\* empty or with a service error, and nothing is returned before it ends.
C1_NonEmptyActionsOrError ==
    /\ pc = "done" => (response.status = "200" /\ response.actions # <<>>)
    /\ pc = "failed" => response = [status |-> "500"]
    /\ pc \notin {"done", "failed"} => response = NoResponse

\* the stream failed, the blocking call captured nothing and the JSON
\* fallback returned nothing: the response holds the synthesized action
C1_Witness ==
    /\ pc = "done"
    /\ calls = <<ModelCall("converse_stream", "PLANNER_SYSTEM", "EMIT_PLAN_TOOL"),
                 ModelCall("converse", "PLANNER_SYSTEM", "EMIT_PLAN_TOOL"),
                 ModelCall("converse", "JSON_PLAN_SYSTEM", None)>>
    /\ capture = <<>> /\ json_result.run /\ json_result.acts = <<>>
    /\ Len(response.actions) = 1

\* C2: the returned actions are the capture's when it is not empty, else the
\* JSON fallback's when that is not empty, else the one synthesized
\* update_file of app/page.tsx; the JSON fallback runs only on an empty
\* capture, the synthesizer and its synthesize.minimal event only when both
\* are empty.
C2_StrictPriority ==
    /\ (json_result.run \/ HasTraced("json-plan.start")) => capture = <<>>
    /\ HasTraced("synthesize.minimal") <=>
          (json_result.run /\ capture = <<>> /\ json_result.acts = <<>>)
    /\ pc \in {"respond", "done"} =>
          /\ actions = ByPriority
          /\ capture = <<>> => json_result.run
    /\ pc = "done" => response.actions = ByPriority

\* the capture was empty and the JSON fallback's actions were returned
C2_Witness ==
    /\ pc = "done"
    /\ capture = <<>>
    /\ json_result.acts # <<>>
    /\ response.actions = json_result.acts
    /\ ~HasTraced("synthesize.minimal")

\* C10: no exception leaves _json_only_plan, whatever the context and the
\* model's answer, and a failure in it leaves a json_plan error event and no
\* actions.
C10_JsonPlanNeverThrows ==
    /\ fail_stage # "json_only_plan"
    /\ (json_result.run /\ json_result.error # "") =>
          /\ json_result.acts = <<>>
          /\ \E i \in 1..Len(pushed) :
                pushed[i].kind = "error" /\ pushed[i].msg = "json_plan"

\* the soft failures of the JSON fallback, read off the model's answer: no
\* text, text that does not parse, an object without a list under "actions"
EmptyText(reply) == ~reply.raises /\ reply.text = <<>>
Malformed(reply) ==
    ~reply.raises /\ reply.text # <<>> /\ ~json_loads(json_slice(reply.text)).ok
NoActionsList(reply) ==
    /\ ~reply.raises /\ reply.text # <<>>
    /\ LET data == json_loads(json_slice(reply.text))
       IN  /\ data.ok /\ IsDict(data.val)
           /\ ~("actions" \in DOMAIN data.val.v /\ IsList(data.val.v["actions"]))
SoftFailure(reply) == EmptyText(reply) \/ Malformed(reply) \/ NoActionsList(reply)
ErrorTracedAt(where) ==
    \E i \in 1..Len(pushed) :
        pushed[i].kind = "error" /\ pushed[i].msg = where /\ pushed[i].sid = SessionId

\* C11: when the JSON fallback's answer is empty, malformed or an object
\* with a missing or non-list actions field, an error event is traced on the
\* request's session, the fallback returns no actions, and the request goes
\* on to the synthesizer instead of failing.
C11_SoftFailuresTracedAsError ==
    (json_result.run /\ SoftFailure(json_result.reply)) =>
        /\ json_result.acts = <<>>
        /\ ErrorTracedAt("json_plan")
        /\ HasTraced("synthesize.minimal")
        /\ pc # "failed"

\* C12: the streaming attempt does not go on past its deadline of 20 time
\* units: a stream still being read when the deadline has passed is
\* cancelled and the blocking call follows, so that no streaming attempt
\* ends, with its result or its exception, later than the deadline.
C12_StreamCancelledAtDeadline ==
    /\ pc = "streaming" => stream_clock <= StreamTimeout
    /\ ~attempt.overran

\* C13: a request that fails has answered with the service error, and the
\* last event on its session is the error event that names the stage whose
\* exception reached the handler (the blocking call, the JSON fallback's
\* snapshot, the summary).
C13_ErrorTaggedWithFailingStage ==
    pc = "failed" =>
        /\ response = [status |-> "500"]
        /\ pushed[Len(pushed)].kind = "error"
        /\ pushed[Len(pushed)].sid = SessionId
        /\ pushed[Len(pushed)].msg = fail_stage

PlanningResponses == {i \in 1..Len(pushed) : pushed[i].msg = "planning.response"}

\* C18: every event of a plan request is pushed to its session; the first
\* two are planning.start and model.start of phase plan; planning.response
\* is pushed once, when the actions are final and not before, and on
\* success it is the last event and carries the length of the returned
\* action list.
C18_TraceOrdering ==
    /\ \A i \in 1..Len(pushed) : pushed[i].sid = SessionId
    /\ pc = "idle" => pushed = <<>>
    /\ pc # "idle" =>
          /\ Len(pushed) >= 2
          /\ pushed[1].kind = "step" /\ pushed[1].msg = "planning.start"
          /\ pushed[2].kind = "model.start" /\ pushed[2].msg = "plan"
    /\ pc \notin {"done", "failed"} => PlanningResponses = {}
    /\ pc = "done" =>
          /\ PlanningResponses = {Len(pushed)}
          /\ pushed[Len(pushed)].kind = "step"
          /\ pushed[Len(pushed)].n = Len(response.actions)

\* a successful request that pushed a token, ran both fallbacks and
\* returned the synthesized action
C18_Witness ==
    /\ pc = "done"
    /\ \E i \in 1..Len(pushed) : pushed[i].kind = "token"
    /\ HasTraced("json-plan.start")
    /\ HasTraced("synthesize.minimal")
    /\ pushed[Len(pushed)].n = 1

CallsOf(api, system) ==
    {i \in 1..Len(calls) : calls[i].api = api /\ calls[i].system = system}

\* C19: once the streaming attempt is over, the blocking planning call has
\* been made, once, exactly when the attempt raised or ran past its
\* deadline; it is given the system prompt and the tools of the streaming
\* call; a request makes at most one streaming call, one blocking planning
\* call and one JSON-fallback call.
C19_BlockingCallIffStreamFailed ==
    /\ Cardinality(CallsOf("converse_stream", "PLANNER_SYSTEM")) <= 1
    /\ Cardinality(CallsOf("converse", "PLANNER_SYSTEM")) <= 1
    /\ Cardinality(CallsOf("converse", "JSON_PLAN_SYSTEM")) <= 1
    /\ \A i \in 1..Len(calls) :
          calls[i].system = "PLANNER_SYSTEM" => calls[i].tools = "EMIT_PLAN_TOOL"
    /\ pc \in {"captured", "json", "respond", "done", "failed"} =>
          (CallsOf("converse", "PLANNER_SYSTEM") # {}
              <=> (attempt.outcome = "raised" \/ attempt.overran))

\* C20: a plan request that has started is eventually answered, with the
\* PlanResponse or with the service error, when every gateway call returns
\* or raises and the stream ends.
C20_EveryRequestAnswered == (pc # "idle") ~> (pc \in {"done", "failed"})

\* an answered request that went through the stream, the blocking call,
\* the JSON fallback and the synthesizer
C20_Witness ==
    /\ pc = "done"
    /\ attempt.outcome = "raised"
    /\ Len(calls) = 3
    /\ stream_seen > 0
    /\ json_result.run

\* ---------------------------------------------------- claims: snapshot
\* the files whose chunk is not the header followed by the whole contents
Truncated ==
    {i \in 1..Len(blob.chunks) :
        blob.chunks[i] # Header(blob.files[i].rel) \o blob.files[i].src}
RECURSIVE Whole(_)
Whole(files) ==
    IF files = <<>> THEN <<>>
    ELSE Header(files[1].rel) \o files[1].src \o Whole(Tail(files))

\* C14: the output of _context_blob is never longer than the budget; the
\* files included are the first ones of the mapping, each as its header and
\* a prefix of its contents; at most one is cut short, and it is the last
\* one included.
C14_WithinBudgetTruncatingLast ==
    /\ blob.used <= blob.char_budget
    /\ Len(blob.chunks) <= Len(blob.files)
    /\ \A i \in 1..Len(blob.chunks) :
          \E n \in 0..Len(blob.files[i].src) :
              blob.chunks[i] =
                  Header(blob.files[i].rel) \o SubSeq(blob.files[i].src, 1, n)
    /\ Cardinality(Truncated) <= 1
    /\ \A i \in Truncated : i = Len(blob.chunks) /\ blob.pc # "loop"
    /\ blob.pc = "returned" =>
          /\ Len(blob.result) <= blob.char_budget
          /\ blob.result = join(blob.chunks)

\* the second of two files was cut short and fills the budget
C14_Witness ==
    /\ blob.pc = "returned"
    /\ Len(blob.chunks) = 2
    /\ Truncated = {2}
    /\ Len(blob.result) = blob.char_budget

\* C15: when the headers and contents of all the files are together shorter
\* than the budget, the output is every file's header followed by its
\* whole contents, in the mapping's order.
C15_RoundTripUnderBudget ==
    (blob.pc = "returned" /\ blob.context = "files"
        /\ Len(Whole(blob.files)) < blob.char_budget) =>
            blob.result = Whole(blob.files)

\* two files with contents, returned whole under a budget they do not fill
C15_Witness ==
    /\ blob.pc = "returned"
    /\ Len(blob.files) = 2
    /\ \A i \in 1..2 : blob.files[i].src # <<>>
    /\ Len(Whole(blob.files)) < blob.char_budget
    /\ blob.result = Whole(blob.files)

\* ----------------------------------------------------- claims: preview
\* a file whose path is index.html
NamedIndexHtml(f) == f.has_path /\ f.path = IndexHtml
\* what the precedence index.html, component, .html, dump selects
ByPrecedence(files) ==
    LET index == {i \in 1..Len(files) : NamedIndexHtml(files[i])}
        tsx == {i \in 1..Len(files) : is_tsx(files[i])}
        html == {i \in 1..Len(files) : ends_html(files[i])}
    IN  IF index # {} THEN files[FirstOf(index)].contents
        ELSE IF tsx # {}
        THEN tsx_wrapper(path_or_empty(files[FirstOf(tsx)]), files[FirstOf(tsx)].contents)
        ELSE IF html # {} THEN files[FirstOf(html)].contents
        ELSE <<"<pre>">>
                \o (IF files[1].has_path THEN files[1].path ELSE <<"(no path)">>)
                \o <<"\\n\\n">> \o files[1].contents \o <<"</pre>">>

\* C16: after a codegen request that returned files, the preview snapshot
\* is the contents of the first file whose path is index.html; if there is
\* none, the first .tsx file in the runnable shell; if none, the contents of
\* the first .html file; if none, the dump of the first file.
C16_PreviewByPrecedence ==
    (gen.pc = "done" /\ gen.status = "200") =>
        PREVIEW_HTML = ByPrecedence(gen.files)

\* --------------------------------------------- claims: concurrent pushes
\* ids of the events in the queue registered for a session
Registered(sid) ==
    IF SESSION_QUEUES[sid] = NoQueue THEN <<>>
    ELSE [i \in 1..Len(qbuf[SESSION_QUEUES[sid]]) |-> qbuf[SESSION_QUEUES[sid]][i].id]
\* ids of the events pushed to a session, in the order of their put_nowait
PushedTo(sid) ==
    SelectSeq([i \in 1..Len(pushed) |-> i], LAMBDA i : pushed[i].sid = sid)

\* C17: when the handlers that push to a session from two threads have
\* completed, and nothing was consumed, every event pushed to the session is
\* in the queue registered for it, in the order of the pushes, also when the
\* session had no queue when they began.
C17_ConcurrentPushesKept ==
    (\A t \in Threads : thr[t].pc \in {"idle", "done"}) =>
        \A sid \in Sessions : Registered(sid) = PushedTo(sid)

\* the events of a kind and message pushed to the request's session
TracedOf(kind, msg) ==
    {i \in 1..Len(pushed) : /\ pushed[i].kind = kind
                            /\ pushed[i].msg = msg
                            /\ pushed[i].sid = SessionId}

\* the texts the blocking call appended: those after the streaming attempt's
BlockingChunks == Len(assistant_chunks) - attempt.chunks

\* C21: a plan request answered with a PlanResponse has pushed exactly one
\* model.stop(phase=plan) event to its session, every assistant text is
\* mirrored as one token event, and the token events come from the streaming
\* call or from the blocking call, never from both.
C21_OneModelStopPerAnswer ==
    response.status = "200" =>
        /\ Cardinality(TracedOf("model.stop", "plan")) = 1
        /\ Cardinality(TracedOf("token", "")) = Len(assistant_chunks)
        /\ ~(attempt.chunks > 0 /\ BlockingChunks > 0)

\* ----------------------------------------------------------- claims: chat
\* no chat request is between its first statement and its return
ChatQuiet == \A t \in Threads : chat[t].pc \in {"idle", "done", "failed"}

\* user, assistant, user, assistant, ...: an even number of turns
Alternates(history) ==
    /\ Len(history) % 2 = 0
    /\ \A i \in 1..Len(history) :
          history[i].role = IF i % 2 = 1 THEN "user" ELSE "assistant"

\* the history holds the request's user turn and, right behind it, its
\* assistant turn
OwnTurnsAppended(t) ==
    LET history == SESSIONS[chat[t].session_id]
    IN  \E k \in 1..(Len(history) - 1) :
            /\ history[k] = Turn("user", chat[t].req.user_input)
            /\ history[k + 1] = Turn("assistant", chat[t].assistant_text)

\* a step keeps every history as a prefix of what it becomes
HistoriesGrow ==
    \A sid \in DOMAIN SESSIONS :
        /\ sid \in DOMAIN SESSIONS'
        /\ Len(SESSIONS'[sid]) >= Len(SESSIONS[sid])
        /\ SubSeq(SESSIONS'[sid], 1, Len(SESSIONS[sid])) = SESSIONS[sid]

\* the step that returns a ChatSendResponse reports the history's length
ReturnsLength ==
    \A t \in Threads :
        (chat[t].pc = "return" /\ chat'[t].pc = "done") =>
            chat'[t].response.history_len = Len(SESSIONS'[chat[t].session_id])

\* C22: whenever no chat request is under way, every session's history has
\* an even length and alternates user, assistant from a user turn on; no
\* history ever shrinks; a request answered with a ChatSendResponse has
\* appended its own user turn followed by its own assistant turn, and its
\* history_len is the length of the history when it returns. Requests of
\* two threads may overlap, on one session or on two.
C22_ChatHistoryInvariant ==
    /\ [](/\ ChatQuiet => \A sid \in DOMAIN SESSIONS : Alternates(SESSIONS[sid])
          /\ \A t \in Threads : chat[t].pc = "done" => OwnTurnsAppended(t))
    /\ [][HistoriesGrow /\ ReturnsLength]_vars

\* the turns of every session, of those without a history too
Turns(sessions) ==
    [sid \in Sessions \cup {GeneratedId} |->
        IF sid \in DOMAIN sessions THEN sessions[sid] ELSE <<>>]

\* the step is one of thread t's request whose model call raises: its first
\* statements up to the call, or the except branch
FailingChatStep(t) ==
    \/ chat[t].pc # "called" /\ chat'[t].pc = "called"
    \/ chat[t].pc = "called" /\ chat'[t].pc = "failed"

\* C23: a chat request whose model call raises changes the turns of no
\* session's history (its user turn is recorded nowhere), and the step that
\* answers it with the service error has pushed an error event first.
C23_FailedChatLeavesHistories ==
    /\ [](\A t \in Threads : chat[t].pc = "failed" =>
            \A sid \in DOMAIN SESSIONS : \A i \in 1..Len(SESSIONS[sid]) :
                SESSIONS[sid][i] # Turn("user", chat[t].req.user_input))
    /\ [][\A t \in Threads :
            /\ FailingChatStep(t) => Turns(SESSIONS') = Turns(SESSIONS)
            /\ chat[t].pc = "called" /\ chat'[t].pc = "failed" =>
                  /\ chat'[t].response = [status |-> "500"]
                  /\ Len(pushed') = Len(pushed) + 1
                  /\ pushed'[Len(pushed')].kind = "error"
                  /\ pushed'[Len(pushed')].msg = "chat_send"]_vars

\* a request has failed on a session that held the two turns of an earlier
\* request when it started and holds them still, and the error event is the
\* last one pushed
C23_Witness ==
    \E t \in Threads :
        /\ chat[t].pc = "failed"
        /\ Len(chat[t].messages) = 3
        /\ Len(SESSIONS[chat[t].session_id]) = 2
        /\ pushed[Len(pushed)].kind = "error"

\* -------------------------------------------------------- claims: codegen
\* the step ends a codegen request
CodegenEnds == gen.pc = "calling" /\ gen'.pc = "done"

\* C24: a codegen request that fails because the model call raises or the
\* model returns neither files nor text leaves the preview snapshot as it
\* was, has pushed an error event and is answered with a service error; and
\* the preview changes only in a request that is answered with files.
C24_FailedCodegenKeepsPreview ==
    [][/\ (CodegenEnds /\ gen'.status = "500" /\ gen'.files = <<>>) =>
            /\ PREVIEW_HTML' = PREVIEW_HTML
            /\ Len(pushed') = Len(pushed) + 1
            /\ pushed'[Len(pushed')].kind = "error"
       /\ PREVIEW_HTML' # PREVIEW_HTML =>
            /\ CodegenEnds
            /\ gen'.status = "200"
            /\ gen'.files # <<>>]_vars
====
